---- MODULE Spec2Model ----
(***************************************************************************)
(* RAJAPerf CUDA kernels: the block-parallel reduction PI_REDUCE, the      *)
(* tuning dispatcher PI_REDUCE::runCudaVariant and the launch chain of     *)
(* POLYBENCH_FLOYD_WARSHALL.  The host thread, the single CUDA stream and  *)
(* the device threads are separate processes; every step of a device       *)
(* thread is one action, so that every interleaving is explored.           *)
(***************************************************************************)
EXTENDS Integers, Sequences, FiniteSets, TLC

\* ------------------------------------------------------------------ bounds
MaxIend == 3
MaxBlock == 4
MaxCap == 2
MaxPiInit == 1
MaxReps == 2
MaxCands == 2
MaxTune == 4
MaxW == 1
TileJ == 2
TileI == 2

VARIABLES
  hpc,            \* host: position in the variant function
  vid,            \* VariantID argument
  run_reps,       \* getRunReps()
  irep,           \* repetition counter of the timed loop
  stream,         \* res.get_stream(): operations enqueued and not yet retired
  launchOk,       \* whether the device accepts this run's kernel configuration
  lastErr,        \* what cudaGetLastError() would return
  hlog,           \* host calls in program order (startTimer, launch, check, ...)
  cout,           \* number of diagnostics written to getCout()
  \* PI_REDUCE
  strategy,       \* "block": runCudaVariantBlock, "occgs": runCudaVariantOccGS
  block_size,     \* template parameter block_size
  iend,           \* getActualProblemSize()
  m_pi_init,      \* initial value
  max_grid_size,  \* value returned by detail::getCudaOccupancyMaxBlocks
  dpi,            \* device accumulator *dpi
  m_pi,           \* host result m_pi
  gridDim,        \* grid size of the kernel being executed
  tpc,            \* device thread <<blockIdx, threadIdx>> -> position in pi_reduce
  ti,             \* device thread -> its local variable i
  ppi,            \* device thread -> its slot of the shared buffer ppi[]
  added,          \* blockIdx -> the adds made to *dpi since the last reset
  devStage,       \* what the stream has executed last
  acc,            \* blockIdx -> the accesses <<threadIdx, slot, "r" or "w">> to ppi[]
                  \* since the block's last barrier
  bars,           \* device thread -> number of __syncthreads() it has passed
  \* PI_REDUCE::runCudaVariant
  gpu_block_sizes, \* gpu_block_sizes_type: the candidate block sizes, in order
  validSizes,     \* run_params: the block sizes the validity filter names
  tune_idx,       \* argument tune_idx
  t,              \* the running tuning counter
  pos,            \* seq_for: position in gpu_block_sizes
  ran,            \* implementations executed by the call, in order
  ncall,          \* number of the call (1 or 2)
  firstCall,      \* tune_idx and ran of the first call, once it has returned
  \* POLYBENCH_FLOYD_WARSHALL
  N,              \* matrix order
  k,              \* the host's loop variable k
  pin,            \* the device matrix, <<i, j>> -> weight
  pin0,           \* the matrix when the device started the current chain
  pinAtLaunch,    \* the matrix when the device started the current launch
  running,        \* launch <<irep, k>> being executed -> thread <<i, j>> -> position
  issued,         \* launches <<irep, k>> the host has issued, in order
  completed,      \* launches the device has completed, in order
  \* the suite
  entry           \* the entry point the suite has called

hostVars == <<hpc, vid, run_reps, irep, stream, launchOk, lastErr, hlog, cout>>
piInputs == <<strategy, block_size, iend, m_pi_init, max_grid_size>>
piDevVars == <<dpi, m_pi, gridDim, tpc, ti, ppi, added, devStage, acc, bars>>
kernelVars == <<gridDim, tpc, ti, ppi, acc, bars>>
dispVars == <<gpu_block_sizes, validSizes, tune_idx, t, pos, ran, ncall, firstCall>>
fwVars == <<N, k, pin, pin0, pinAtLaunch, running, issued, completed>>
notPi == <<dispVars, fwVars, entry>>
vars == <<hostVars, piInputs, piDevVars, dispVars, fwVars, entry>>

\* ------------------------------------------------- exact abstract reals
\* A value is pi_init-part plus a count for every midpoint term: the term of
\* index i, dx / (1.0 + x*x) with x = (i + 0.5)*dx, is kept symbolic.
Indices == 0 .. (MaxIend - 1)

Zero == [init |-> 0, cnt |-> [i \in Indices |-> 0]]

VAdd(a, b) == [init |-> a.init + b.init,
               cnt |-> [i \in Indices |-> a.cnt[i] + b.cnt[i]]]

VScale(c, a) == [init |-> c * a.init, cnt |-> [i \in Indices |-> c * a.cnt[i]]]

Seed(p) == [init |-> p, cnt |-> [i \in Indices |-> 0]]

Term(i) == [init |-> 0, cnt |-> [j \in Indices |-> IF j = i THEN 1 ELSE 0]]

RAJA_DIVIDE_CEILING_INT(dividend, divisor) == (dividend + divisor - 1) \div divisor


\* ------------------------------------------------------------ host helpers
Enqueue(op) == stream' = Append(stream, op)

Call(name) == hlog' = Append(hlog, name)

Threads(grid, bs) == (0 .. (grid - 1)) \X (0 .. (bs - 1))

\* PI_REDUCE::runCudaVariantBlock, line 85
PlainGridSize(n, bs) == RAJA_DIVIDE_CEILING_INT(n, bs)

OccGridSizeMax(n, bs, cap) ==
  LET normal_grid_size == RAJA_DIVIDE_CEILING_INT(n, bs)
  IN  IF cap > normal_grid_size THEN cap ELSE normal_grid_size

\* PI_REDUCE::runCudaVariantOccGS, lines 151-152: std::min(normal, max)
OccGridSize(n, bs, cap) ==
  LET normal_grid_size == RAJA_DIVIDE_CEILING_INT(n, bs)
  IN  IF cap < normal_grid_size THEN cap ELSE normal_grid_size

GridSize == IF strategy = "occgs"
              THEN OccGridSize(iend, block_size, max_grid_size)
              ELSE PlainGridSize(iend, block_size)

\* ------------------------------------------ PI_REDUCE: the host function
\* if ( vid == Base_CUDA ) ... else: unknown variant id
PiEntry ==
  /\ hpc = "entry"
  /\ IF vid = "Base_CUDA"
       THEN /\ hpc' = "alloc"
            /\ UNCHANGED <<cout, hlog>>
       ELSE /\ hpc' = "done"
            /\ cout' = cout + 1
            /\ Call("getCout")
  /\ UNCHANGED <<vid, run_reps, irep, stream, launchOk, lastErr, piInputs, notPi, piDevVars>>

\* allocData(DataSpace::CudaDevice, dpi, 1); startTimer()
PiAllocStart ==
  /\ hpc = "alloc"
  /\ hpc' = "loop"
  /\ irep' = 0
  /\ hlog' = hlog \o <<"allocData", "startTimer">>
  /\ UNCHANGED <<vid, run_reps, stream, launchOk, lastErr, cout, piInputs, notPi, piDevVars>>

\* for (irep = 0; irep < run_reps; ++irep): the test
PiLoop ==
  /\ hpc = "loop"
  /\ hpc' = IF irep < run_reps THEN "reset" ELSE "stopTimer"
  /\ UNCHANGED <<vid, run_reps, irep, stream, launchOk, lastErr, hlog, cout,
                 piInputs, notPi, piDevVars>>

\* cudaMemcpyAsync( dpi, &m_pi_init, ..., cudaMemcpyHostToDevice, stream )
PiReset ==
  /\ hpc = "reset"
  /\ hpc' = "launch"
  /\ Enqueue([op |-> "h2d", grid |-> 0])
  /\ Call("memcpyH2D")
  /\ UNCHANGED <<vid, run_reps, irep, launchOk, lastErr, cout, piInputs, notPi, piDevVars>>

\* pi_reduce<block_size><<<grid_size, block_size, shmem, stream>>>(...)
PiLaunch ==
  /\ hpc = "launch"
  /\ hpc' = "errchk"
  /\ IF launchOk
       THEN /\ Enqueue([op |-> "kernel", grid |-> GridSize])
            /\ lastErr' = "cudaSuccess"
       ELSE /\ lastErr' = "cudaError"
            /\ UNCHANGED stream
  /\ Call("launch")
  /\ UNCHANGED <<vid, run_reps, irep, launchOk, cout, piInputs, notPi, piDevVars>>

\* cudaErrchk( cudaGetLastError() )
PiErrchk ==
  /\ hpc = "errchk"
  /\ hpc' = IF lastErr = "cudaSuccess" THEN "copyback" ELSE "aborted"
  /\ lastErr' = "cudaSuccess"
  /\ Call("cudaErrchk")
  /\ UNCHANGED <<vid, run_reps, irep, stream, launchOk, cout, piInputs, notPi, piDevVars>>

\* cudaMemcpyAsync( &m_pi, dpi, ..., cudaMemcpyDeviceToHost, stream )
PiCopyBack ==
  /\ hpc = "copyback"
  /\ hpc' = "sync"
  /\ Enqueue([op |-> "d2h", grid |-> 0])
  /\ Call("memcpyD2H")
  /\ UNCHANGED <<vid, run_reps, irep, launchOk, lastErr, cout, piInputs, notPi, piDevVars>>

PiSyncNoWait ==
  /\ hpc = "sync"
  /\ hpc' = "scale"
  /\ Call("cudaStreamSynchronize")
  /\ UNCHANGED <<vid, run_reps, irep, stream, launchOk, lastErr, cout,
                 piInputs, notPi, piDevVars>>

\* cudaStreamSynchronize( stream ): returns when the stream is empty
PiSync ==
  /\ hpc = "sync"
  /\ stream = <<>>
  /\ hpc' = "scale"
  /\ Call("cudaStreamSynchronize")
  /\ UNCHANGED <<vid, run_reps, irep, stream, launchOk, lastErr, cout,
                 piInputs, notPi, piDevVars>>

\* m_pi *= 4.0; ++irep
PiScale ==
  /\ hpc = "scale"
  /\ hpc' = "loop"
  /\ m_pi' = VScale(4, m_pi)
  /\ irep' = irep + 1
  /\ UNCHANGED <<vid, run_reps, stream, launchOk, lastErr, hlog, cout, piInputs, notPi,
                 dpi, kernelVars, added, devStage>>

\* stopTimer(); deallocData(DataSpace::CudaDevice, dpi)
PiStopDealloc ==
  /\ hpc = "stopTimer"
  /\ hpc' = "done"
  /\ hlog' = hlog \o <<"stopTimer", "deallocData">>
  /\ UNCHANGED <<vid, run_reps, irep, stream, launchOk, lastErr, cout,
                 piInputs, notPi, piDevVars>>

\* ------------------------------------- the stream: in-order execution
EligibleAny(q) == DOMAIN q

\* The operations the device may execute now: a stream runs its operations
\* one at a time, in the order of their enqueue.
Eligible(q) == IF q = <<>> THEN {} ELSE {1}

Retire(q, n) == [j \in 1 .. (Len(q) - 1) |-> IF j < n THEN q[j] ELSE q[j + 1]]

DevH2DKeep ==
  /\ \E n \in Eligible(stream) :
       /\ stream[n].op = "h2d"
       /\ stream' = Retire(stream, n)
  /\ devStage # "kernel"
  /\ added' = <<>>
  /\ devStage' = "reset"
  /\ UNCHANGED <<hpc, vid, run_reps, irep, launchOk, lastErr, hlog, cout,
                 piInputs, notPi, dpi, m_pi, kernelVars>>

\* the host-to-device copy of m_pi_init into *dpi executes
DevH2D ==
  /\ \E n \in Eligible(stream) :
       /\ stream[n].op = "h2d"
       /\ stream' = Retire(stream, n)
  /\ devStage # "kernel"
  /\ dpi' = Seed(m_pi_init)
  /\ added' = <<>>
  /\ devStage' = "reset"
  /\ UNCHANGED <<hpc, vid, run_reps, irep, launchOk, lastErr, hlog, cout,
                 piInputs, notPi, m_pi, kernelVars>>

\* the kernel starts: gridDim.x blocks of block_size threads, at line 34
KernelBegin ==
  /\ \E n \in Eligible(stream) :
       /\ stream[n].op = "kernel"
       /\ gridDim' = stream[n].grid
  /\ devStage # "kernel"
  /\ devStage' = "kernel"
  /\ tpc' = [th \in Threads(gridDim', block_size) |-> "seed"]
  /\ ti' = [th \in Threads(gridDim', block_size) |-> 0]
  /\ ppi' = [th \in Threads(gridDim', block_size) |-> Zero]
  /\ added' = [b \in 0 .. (gridDim' - 1) |-> <<>>]
  /\ acc' = [b \in 0 .. (gridDim' - 1) |-> {}]
  /\ bars' = [th \in Threads(gridDim', block_size) |-> 0]
  /\ UNCHANGED <<hostVars, piInputs, notPi, dpi, m_pi>>

\* the kernel is complete when every thread has returned
KernelEnd ==
  /\ devStage = "kernel"
  /\ \A th \in DOMAIN tpc : tpc[th] = "done"
  /\ \E n \in Eligible(stream) :
       /\ stream[n].op = "kernel"
       /\ stream' = Retire(stream, n)
  /\ devStage' = "finished"
  /\ tpc' = <<>>
  /\ ti' = <<>>
  /\ ppi' = <<>>
  /\ acc' = <<>>
  /\ bars' = <<>>
  /\ UNCHANGED <<hpc, vid, run_reps, irep, launchOk, lastErr, hlog, cout,
                 piInputs, notPi, dpi, m_pi, gridDim, added>>

\* the device-to-host copy of *dpi into m_pi executes
DevD2H ==
  /\ \E n \in Eligible(stream) :
       /\ stream[n].op = "d2h"
       /\ stream' = Retire(stream, n)
  /\ devStage # "kernel"
  /\ m_pi' = dpi
  /\ devStage' = "read"
  /\ UNCHANGED <<hpc, vid, run_reps, irep, launchOk, lastErr, hlog, cout,
                 piInputs, notPi, dpi, kernelVars, added>>

\* ------------------------------------------- pi_reduce: one device thread
\* lines 34-37: i = blockIdx.x * block_size + threadIdx.x; ppi[tid] = pi_init;
\* the first test of i < iend
ThreadSeed(bx, tx) ==
  /\ tpc[<<bx, tx>>] = "seed"
  /\ ti' = [ti EXCEPT ![<<bx, tx>>] = bx * block_size + tx]
  /\ ppi' = [ppi EXCEPT ![<<bx, tx>>] = Seed(m_pi_init)]
  /\ tpc' = [tpc EXCEPT ![<<bx, tx>>] =
                IF bx * block_size + tx < iend THEN "loop" ELSE "sync41"]
  /\ acc' = [acc EXCEPT ![bx] = @ \cup {<<tx, tx, "w">>}]
  /\ UNCHANGED <<hostVars, piInputs, notPi, dpi, m_pi, gridDim, added, devStage, bars>>

\* lines 37-41: one iteration, i += gridDim.x * block_size, the next test;
\* when the test fails the thread arrives at the barrier of line 41
ThreadLoop(bx, tx) ==
  /\ tpc[<<bx, tx>>] = "loop"
  /\ ppi' = [ppi EXCEPT ![<<bx, tx>>] = VAdd(@, Term(ti[<<bx, tx>>]))]
  /\ ti' = [ti EXCEPT ![<<bx, tx>>] = @ + gridDim * block_size]
  /\ tpc' = [tpc EXCEPT ![<<bx, tx>>] =
                IF ti'[<<bx, tx>>] < iend THEN "loop" ELSE "sync41"]
  /\ acc' = [acc EXCEPT ![bx] = @ \cup {<<tx, tx, "r">>, <<tx, tx, "w">>}]
  /\ UNCHANGED <<hostVars, piInputs, notPi, dpi, m_pi, gridDim, added, devStage, bars>>

\* line 43: the test i > 0 of the halving loop
AfterBarrier(i) == IF i > 0 THEN "halve" ELSE "atomic"

\* line 41 __syncthreads(), then line 43: i = block_size / 2; i > 0
Barrier41(bx) ==
  /\ devStage = "kernel"
  /\ bx \in 0 .. (gridDim - 1)
  /\ \A tx \in 0 .. (block_size - 1) : tpc[<<bx, tx>>] = "sync41"
  /\ tpc' = [th \in DOMAIN tpc |->
               IF th[1] = bx THEN AfterBarrier(block_size \div 2) ELSE tpc[th]]
  /\ ti' = [th \in DOMAIN ti |-> IF th[1] = bx THEN block_size \div 2 ELSE ti[th]]
  /\ acc' = [acc EXCEPT ![bx] = {}]
  /\ bars' = [th \in DOMAIN bars |-> IF th[1] = bx THEN bars[th] + 1 ELSE bars[th]]
  /\ UNCHANGED <<hostVars, piInputs, notPi, dpi, m_pi, gridDim, ppi, added, devStage>>

PartnerNext(tx, i) == tx + 1

\* line 45: the slot threadIdx.x + i
Partner(tx, i) == tx + i

\* lines 44-46: one halving step of one thread, up to the barrier of line 47
ThreadHalve(bx, tx) ==
  /\ tpc[<<bx, tx>>] = "halve"
  /\ IF tx < ti[<<bx, tx>>]
       THEN /\ ppi' = [ppi EXCEPT ![<<bx, tx>>] =
                         VAdd(@, ppi[<<bx, Partner(tx, ti[<<bx, tx>>])>>])]
            /\ acc' = [acc EXCEPT ![bx] =
                         @ \cup {<<tx, tx, "r">>,
                                 <<tx, Partner(tx, ti[<<bx, tx>>]), "r">>,
                                 <<tx, tx, "w">>}]
       ELSE UNCHANGED <<ppi, acc>>
  /\ tpc' = [tpc EXCEPT ![<<bx, tx>>] = "sync47"]
  /\ UNCHANGED <<hostVars, piInputs, notPi, dpi, m_pi, gridDim, ti, added, devStage, bars>>

\* line 47 __syncthreads(), then line 43: i /= 2; i > 0
Barrier47(bx) ==
  /\ devStage = "kernel"
  /\ bx \in 0 .. (gridDim - 1)
  /\ \A tx \in 0 .. (block_size - 1) : tpc[<<bx, tx>>] = "sync47"
  /\ tpc' = [th \in DOMAIN tpc |->
               IF th[1] = bx THEN AfterBarrier(ti[th] \div 2) ELSE tpc[th]]
  /\ ti' = [th \in DOMAIN ti |-> IF th[1] = bx THEN ti[th] \div 2 ELSE ti[th]]
  /\ acc' = [acc EXCEPT ![bx] = {}]
  /\ bars' = [th \in DOMAIN bars |-> IF th[1] = bx THEN bars[th] + 1 ELSE bars[th]]
  /\ UNCHANGED <<hostVars, piInputs, notPi, dpi, m_pi, gridDim, ppi, added, devStage>>

\* line 51: if ( threadIdx.x == 0 )
IsAdderAny(tx) == TRUE

IsAdder(tx) == tx = 0

\* lines 51-53: RAJA::atomicAdd<RAJA::cuda_atomic>( dpi, ppi[0] ), one
\* indivisible read-modify-write of *dpi
ThreadAtomicAdd(bx, tx) ==
  /\ tpc[<<bx, tx>>] = "atomic"
  /\ tpc' = [tpc EXCEPT ![<<bx, tx>>] = "done"]
  /\ IF IsAdder(tx)
       THEN /\ dpi' = VAdd(dpi, ppi[<<bx, 0>>])
            /\ added' = [added EXCEPT ![bx] =
                            Append(@, [tid |-> tx, val |-> ppi[<<bx, 0>>]])]
            /\ acc' = [acc EXCEPT ![bx] = @ \cup {<<tx, 0, "r">>}]
       ELSE UNCHANGED <<dpi, added, acc>>
  /\ UNCHANGED <<hostVars, piInputs, notPi, m_pi, gridDim, ti, ppi, devStage, bars>>

ThreadStep ==
  \E th \in DOMAIN tpc :
     \/ ThreadSeed(th[1], th[2])
     \/ ThreadLoop(th[1], th[2])
     \/ ThreadHalve(th[1], th[2])
     \/ ThreadAtomicAdd(th[1], th[2])

BlockStep ==
  \E bx \in 0 .. (MaxIend) :
     \/ Barrier41(bx)
     \/ Barrier47(bx)

\* the recurrence is not part of this run
FwIdle ==
  /\ N = 0
  /\ k = 0
  /\ pin = <<>>
  /\ pin0 = <<>>
  /\ pinAtLaunch = <<>>
  /\ running = <<>>
  /\ issued = <<>>
  /\ completed = <<>>

\* the dispatcher is not part of this run
DispIdle ==
  /\ gpu_block_sizes = <<>>
  /\ validSizes = {}
  /\ tune_idx = 0
  /\ t = 0
  /\ pos = 1
  /\ ran = <<>>
  /\ ncall = 1
  /\ firstCall = <<>>

\* --------------------------------------------------- the reduction run
PiVids == {"Base_CUDA", "NumVariants"}

InitPi ==
  /\ hpc = "entry"
  /\ vid \in PiVids
  /\ run_reps \in 1 .. MaxReps
  /\ irep = 0
  /\ stream = <<>>
  /\ launchOk \in BOOLEAN
  /\ lastErr = "cudaSuccess"
  /\ hlog = <<>>
  /\ cout = 0
  /\ strategy \in {"block", "occgs"}
  /\ block_size \in 1 .. MaxBlock
  /\ iend \in 0 .. MaxIend
  /\ m_pi_init \in 0 .. MaxPiInit
  /\ max_grid_size \in 1 .. MaxCap
  /\ (strategy = "block" => max_grid_size = 1)
  /\ dpi = Zero
  /\ m_pi = Zero
  /\ gridDim = 0
  /\ tpc = <<>>
  /\ ti = <<>>
  /\ ppi = <<>>
  /\ added = <<>>
  /\ devStage = "idle"
  /\ acc = <<>>
  /\ bars = <<>>
  /\ entry = (IF strategy = "occgs" THEN "runCudaVariantOccGS" ELSE "runCudaVariantBlock")
  /\ DispIdle
  /\ FwIdle

NextPi ==
  \/ PiEntry
  \/ PiAllocStart
  \/ PiLoop
  \/ PiReset
  \/ PiLaunch
  \/ PiErrchk
  \/ PiCopyBack
  \/ PiSync
  \/ PiScale
  \/ PiStopDealloc
  \/ DevH2D
  \/ KernelBegin
  \/ KernelEnd
  \/ DevD2H
  \/ ThreadStep
  \/ BlockStep

SpecPi == InitPi /\ [][NextPi]_vars

\* ------------------------- pi_reduce executed by one thread after another
RECURSIVE VSum(_, _)
VSum(f, S) == IF S = {} THEN Zero
              ELSE LET x == CHOOSE y \in S : TRUE
                   IN  VAdd(f[x], VSum(f, S \ {x}))

\* lines 34-40: what thread <<bx, tx>> leaves in its slot before the barrier
ThreadPartial(bx, tx, grid, bs, n, p) ==
  LET first == bx * bs + tx
      mine == {i \in 0 .. (n - 1) :
                 i >= first /\ (i - first) % (grid * bs) = 0}
  IN  VAdd(Seed(p), VSum([i \in mine |-> Term(i)], mine))

\* lines 43-48: the halving loop from active count i on
RECURSIVE HalvingLoop(_, _, _)
HalvingLoop(buf, i, bs) ==
  IF i > 0
    THEN HalvingLoop([tx \in 0 .. (bs - 1) |->
                        IF tx < i THEN VAdd(buf[tx], buf[tx + i]) ELSE buf[tx]],
                     i \div 2, bs)
    ELSE buf

\* what block bx adds to *dpi: ppi[0] after the halving loop
BlockTotal(bx, grid, bs, n, p) ==
  HalvingLoop([tx \in 0 .. (bs - 1) |-> ThreadPartial(bx, tx, grid, bs, n, p)],
              bs \div 2, bs)[0]

\* *dpi after the reset and one launch of grid blocks
KernelResult(grid, bs, n, p) ==
  LET B == 0 .. (grid - 1)
  IN  VAdd(Seed(p), VSum([bx \in B |-> BlockTotal(bx, grid, bs, n, p)], B))

\* sum over i in [0, n) of the midpoint term of i
MidpointSum(n) == [init |-> 0, cnt |-> [i \in Indices |-> IF i < n THEN 1 ELSE 0]]

\* ------------------------------------------------------------------ C1
\* C1 (as claimed): when the host has read the accumulator back and not yet
\* scaled it, every index i in [0, iend) has contributed its term exactly
\* once, and for iend = 0 the accumulator equals pi_init.
C1_EachIndexOnce ==
  hpc = "scale" =>
     /\ m_pi.cnt = MidpointSum(iend).cnt
     /\ (iend = 0 => m_pi = Seed(m_pi_init))

\* ------------------------------------------------------------------ C2
AddedSum == VSum([b \in DOMAIN added |->
                    VSum([j \in DOMAIN added[b] |-> added[b][j].val],
                         DOMAIN added[b])],
                 DOMAIN added)

\* C2: from the reset to the host's read, *dpi is the reset value plus the
\* logged atomic adds, every block adds at most once and only by its thread
\* 0; once all blocks have finished every launched block has added its total
\* exactly once and *dpi is the value a one-thread-at-a-time run gives.
C2_BlockAddedOnce ==
  /\ devStage \in {"kernel", "finished", "read"} =>
       /\ dpi = VAdd(Seed(m_pi_init), AddedSum)
       /\ \A b \in DOMAIN added :
            /\ Len(added[b]) <= 1
            /\ \A j \in DOMAIN added[b] : added[b][j].tid = 0
  /\ devStage \in {"finished", "read"} =>
       /\ DOMAIN added = 0 .. (gridDim - 1)
       /\ \A b \in DOMAIN added :
            /\ Len(added[b]) = 1
            /\ added[b][1].val = BlockTotal(b, gridDim, block_size, iend, m_pi_init)
       /\ dpi = KernelResult(gridDim, block_size, iend, m_pi_init)

C2_Witness ==
  /\ devStage = "finished"
  /\ gridDim >= 2
  /\ block_size >= 2
  /\ \A b \in DOMAIN added : Len(added[b]) = 1

\* ------------------------------------------------------------------ C6
\* C6 (as claimed): for a fixed problem the accumulator the host reads back
\* in the plain-grid variant is the one block size 1 gives.
C6_SameForEveryBlockSize ==
  (hpc = "scale" /\ strategy = "block") =>
     m_pi = KernelResult(PlainGridSize(iend, 1), 1, iend, m_pi_init)

\* ------------------------------------------------------------------ C7
KernelOps == {stream[n] : n \in {j \in DOMAIN stream : stream[j].op = "kernel"}}

\* C7: in the occupancy variant every launched grid size is at most
\* ceil(iend / block_size), and is equal to it when that is within the cap.
C7_OccGridAtMostNaive ==
  strategy = "occgs" =>
     \A o \in KernelOps :
        /\ o.grid <= RAJA_DIVIDE_CEILING_INT(iend, block_size)
        /\ (RAJA_DIVIDE_CEILING_INT(iend, block_size) <= max_grid_size
              => o.grid = RAJA_DIVIDE_CEILING_INT(iend, block_size))

C7_Witness ==
  /\ strategy = "occgs"
  /\ \E o \in KernelOps :
        /\ o.grid = max_grid_size
        /\ o.grid < RAJA_DIVIDE_CEILING_INT(iend, block_size)

\* ======================================= PI_REDUCE::runCudaVariant
notDisp == <<run_reps, irep, stream, launchOk, lastErr, piInputs, piDevVars, fwVars, entry>>

ValidBlockSizeAny(bs) == TRUE

\* lines 199-200: run_params.numValidGPUBlockSize() == 0u ||
\*                run_params.validGPUBlockSize(block_size)
ValidBlockSize(bs) == Cardinality(validSizes) = 0 \/ bs \in validSizes

IncrNot(n) == n

\* lines 209 and 218: t += 1
Incr(n) == n + 1

\* lines 193-195: size_t t = 0; if ( vid == Base_CUDA || vid == RAJA_CUDA )
\* else (line 226) the diagnostic
DispatchEntry ==
  /\ hpc = "entry"
  /\ t' = 0
  /\ pos' = 1
  /\ IF vid \in {"Base_CUDA", "RAJA_CUDA"}
       THEN /\ hpc' = "seq_for"
            /\ UNCHANGED <<cout, hlog>>
       ELSE /\ hpc' = "return"
            /\ cout' = cout + 1
            /\ Call("getCout")
  /\ UNCHANGED <<vid, gpu_block_sizes, validSizes, tune_idx, ran, ncall, firstCall,
                 notDisp>>

\* lines 197-222: the lambda of seq_for applied to the next candidate
DispatchCandidate ==
  /\ hpc = "seq_for"
  /\ pos <= Len(gpu_block_sizes)
  /\ LET bs == gpu_block_sizes[pos]
         runBlock == IF tune_idx = t THEN <<<<"block", bs>>>> ELSE <<>>
         runOcc == IF tune_idx = Incr(t) THEN <<<<"occgs", bs>>>> ELSE <<>>
     IN  IF ValidBlockSize(bs)
           THEN /\ ran' = ran \o runBlock \o runOcc
                /\ t' = Incr(Incr(t))
           ELSE UNCHANGED <<ran, t>>
  /\ pos' = pos + 1
  /\ UNCHANGED <<hpc, vid, hlog, cout, gpu_block_sizes, validSizes, tune_idx,
                 ncall, firstCall, notDisp>>

\* seq_for has visited every candidate: the function returns
DispatchReturn ==
  /\ hpc = "seq_for"
  /\ pos > Len(gpu_block_sizes)
  /\ hpc' = "return"
  /\ UNCHANGED <<vid, hlog, cout, dispVars, notDisp>>

\* the caller calls runCudaVariant again, with any tune_idx
DispatchAgain ==
  /\ hpc = "return"
  /\ ncall = 1
  /\ ncall' = 2
  /\ firstCall' = <<[tune_idx |-> tune_idx, ran |-> ran, t |-> t]>>
  /\ tune_idx' \in 0 .. MaxTune
  /\ ran' = <<>>
  /\ hpc' = "entry"
  /\ UNCHANGED <<vid, hlog, cout, gpu_block_sizes, validSizes, t, pos, notDisp>>

\* PI_REDUCE::setCudaTuningDefinitions, lines 232-250: the names added, in order
RECURSIVE TuningNamesFrom(_)
TuningNamesFrom(n) ==
  IF n > Len(gpu_block_sizes) THEN <<>>
  ELSE (IF ValidBlockSize(gpu_block_sizes[n])
          THEN <<<<"block", gpu_block_sizes[n]>>, <<"occgs", gpu_block_sizes[n]>>>>
          ELSE <<>>) \o TuningNamesFrom(n + 1)

TuningNames == IF vid \in {"Base_CUDA", "RAJA_CUDA"} THEN TuningNamesFrom(1) ELSE <<>>

\* the candidate lists: block sizes, pairwise different, in any order
DistinctSeqs(S, n) ==
  {q \in UNION {[1 .. m -> S] : m \in 0 .. n} :
     \A i, j \in DOMAIN q : i # j => q[i] # q[j]}

DispVids == {"Base_CUDA", "RAJA_CUDA", "NumVariants"}

\* the reduction is not part of this run
PiIdle ==
  /\ strategy = "block"
  /\ block_size = 1
  /\ iend = 0
  /\ m_pi_init = 0
  /\ max_grid_size = 1
  /\ dpi = Zero
  /\ m_pi = Zero
  /\ gridDim = 0
  /\ tpc = <<>>
  /\ ti = <<>>
  /\ ppi = <<>>
  /\ added = <<>>
  /\ devStage = "idle"
  /\ acc = <<>>
  /\ bars = <<>>

InitDispatch ==
  /\ hpc = "entry"
  /\ vid \in DispVids
  /\ hlog = <<>>
  /\ cout = 0
  /\ gpu_block_sizes \in DistinctSeqs(1 .. MaxBlock, MaxCands)
  /\ validSizes \in SUBSET (1 .. MaxBlock)
  /\ tune_idx \in 0 .. MaxTune
  /\ t = 0
  /\ pos = 1
  /\ ran = <<>>
  /\ ncall = 1
  /\ firstCall = <<>>
  /\ run_reps = 1
  /\ irep = 0
  /\ stream = <<>>
  /\ launchOk = TRUE
  /\ lastErr = "cudaSuccess"
  /\ entry = "runCudaVariant"
  /\ PiIdle
  /\ FwIdle

NextDispatch ==
  \/ DispatchEntry
  \/ DispatchCandidate
  \/ DispatchReturn
  \/ DispatchAgain

SpecDispatch == InitDispatch /\ [][NextDispatch]_vars

\* ------------------------------------------------------------------ C5
Range(q) == {q[i] : i \in DOMAIN q}

\* C5: with the candidate list (pairwise different sizes) and the filter fixed,
\* a call executes at most one implementation, none when tune_idx is at or
\* beyond the number of enumerated tunings; a second call with the same
\* tune_idx executes the same (strategy, block size) pair and a call with a
\* different tune_idx never executes the pair the first call executed.
C5_TuneIdxInjective ==
  /\ Len(ran) <= 1
  /\ hpc = "return" =>
       (tune_idx >= Len(TuningNames) => ran = <<>>)
  /\ (hpc = "return" /\ ncall = 2) =>
       /\ (firstCall[1].tune_idx = tune_idx => firstCall[1].ran = ran)
       /\ (firstCall[1].tune_idx # tune_idx =>
             Range(firstCall[1].ran) \cap Range(ran) = {})

C5_Witness ==
  /\ hpc = "return"
  /\ ncall = 2
  /\ firstCall[1].tune_idx # tune_idx
  /\ Len(firstCall[1].ran) = 1
  /\ Len(ran) = 1
  /\ firstCall[1].ran[1][2] = ran[1][2]

\* ----------------------------------------------------------------- C10
FilterAccepts(bs) == validSizes = {} \/ bs \in validSizes

AcceptedBefore(n) ==
  Cardinality({i \in 1 .. (n - 1) : FilterAccepts(gpu_block_sizes[i])})

Position(bs) == CHOOSE i \in DOMAIN gpu_block_sizes : gpu_block_sizes[i] = bs

Offset(strat) == IF strat = "occgs" THEN 1 ELSE 0

\* C10 (as claimed): a candidate the filter rejects executes nothing and still
\* advances t, so that the pair of the candidate at position p is selected by
\* tune_idx 2(p-1) (block) and 2(p-1)+1 (occgs) whatever the filter rejects.
C10_RejectedAdvancesT ==
  (hpc = "seq_for" /\ vid \in {"Base_CUDA", "RAJA_CUDA"}) =>
     /\ t = 2 * (pos - 1)
     /\ \A r \in Range(ran) :
          /\ FilterAccepts(r[2])
          /\ tune_idx = 2 * (Position(r[2]) - 1) + Offset(r[1])

\* C10 (amended): a candidate the filter rejects executes nothing and does not
\* advance t: t counts two per accepted candidate, and the pair of a candidate
\* is selected by tune_idx 2a (block) and 2a+1 (occgs), a the number of
\* accepted candidates before it.
C10_RejectedLeavesT ==
  (hpc = "seq_for" /\ vid \in {"Base_CUDA", "RAJA_CUDA"}) =>
     /\ t = 2 * AcceptedBefore(pos)
     /\ \A r \in Range(ran) :
          /\ FilterAccepts(r[2])
          /\ tune_idx = 2 * AcceptedBefore(Position(r[2])) + Offset(r[1])

C10_Witness ==
  /\ hpc = "return"
  /\ Len(ran) = 1
  /\ Position(ran[1][2]) = 2
  /\ ~FilterAccepts(gpu_block_sizes[1])
  /\ tune_idx = Offset(ran[1][1])
  /\ t = 2

\* ================================ POLYBENCH_FLOYD_WARSHALL::runCudaVariantImpl
notFw == <<piInputs, piDevVars, dispVars, entry>>

Min(a, b) == IF a < b THEN a ELSE b

\* POLYBENCH_FLOYD_WARSHALL_BODY: pin[i,j] = min(pin[i,j], pin[i,k] + pin[k,j])
FloydWarshallBody(m, kk, i, j) ==
  [m EXCEPT ![<<i, j>>] = Min(m[<<i, j>>], m[<<i, kk>>] + m[<<kk, j>>])]

InBoundsOffByOne(i, j, n) == i < n - 1 /\ j < n

InBoundsLax(i, j, n) == i <= n /\ j < n

\* lines 305 and 318: if ( i < N && j < N )
InBounds(i, j, n) == i < n /\ j < n

\* lines 290-293 and 302-303: the threads <<i, j>> of a launch, nblocks of
\* nthreads_per_block threads along each axis
LaunchedThreads(n) ==
  (0 .. (RAJA_DIVIDE_CEILING_INT(n, TileI) * TileI - 1)) \X
  (0 .. (RAJA_DIVIDE_CEILING_INT(n, TileJ) * TileJ - 1))

\* if ( vid == Base_CUDA ) ... else if ( vid == Lambda_CUDA ) ... else
FwEntry ==
  /\ hpc = "entry"
  /\ IF vid \in {"Base_CUDA", "Lambda_CUDA"}
       THEN /\ hpc' = "rep"
            /\ irep' = 0
            /\ Call("startTimer")
            /\ UNCHANGED cout
       ELSE /\ hpc' = "done"
            /\ cout' = cout + 1
            /\ Call("getCout")
            /\ UNCHANGED irep
  /\ UNCHANGED <<vid, run_reps, stream, launchOk, lastErr, fwVars, notFw>>

\* lines 336 and 357: irep < run_reps, then k = 0; else line 352: stopTimer()
FwRepTest ==
  /\ hpc = "rep"
  /\ IF irep < run_reps
       THEN /\ hpc' = "kloop"
            /\ k' = 0
            /\ UNCHANGED hlog
       ELSE /\ hpc' = "done"
            /\ Call("stopTimer")
            /\ UNCHANGED k
  /\ UNCHANGED <<vid, run_reps, irep, stream, launchOk, lastErr, cout,
                 N, pin, pin0, pinAtLaunch, running, issued, completed, notFw>>

\* lines 338-346 and 359-370: k < N and the launch of the kernel for k
FwLaunch ==
  /\ hpc = "kloop"
  /\ k < N
  /\ issued' = Append(issued, <<irep, k>>)
  /\ Call("launch")
  /\ IF launchOk
       THEN /\ Enqueue([op |-> "fw", id |-> <<irep, k>>])
            /\ lastErr' = "cudaSuccess"
       ELSE /\ lastErr' = "cudaError"
            /\ UNCHANGED stream
  /\ IF vid = "Base_CUDA"
       THEN /\ hpc' = "errchk"
            /\ UNCHANGED k
       ELSE /\ hpc' = "kloop"
            /\ k' = k + 1
  /\ UNCHANGED <<vid, run_reps, irep, launchOk, cout, N, pin, pin0, pinAtLaunch, running,
                 completed, notFw>>

\* line 347 (Base_CUDA only): cudaErrchk( cudaGetLastError() ); ++k
FwErrchk ==
  /\ hpc = "errchk"
  /\ Call("cudaErrchk")
  /\ lastErr' = "cudaSuccess"
  /\ IF lastErr = "cudaSuccess"
       THEN /\ hpc' = "kloop"
            /\ k' = k + 1
       ELSE /\ hpc' = "aborted"
            /\ UNCHANGED k
  /\ UNCHANGED <<vid, run_reps, irep, stream, launchOk, cout, N, pin, pin0, pinAtLaunch,
                 running, issued, completed, notFw>>

FwRepEndSync ==
  /\ hpc = "kloop"
  /\ k >= N
  /\ stream = <<>>
  /\ hpc' = "rep"
  /\ irep' = irep + 1
  /\ Call("cudaStreamSynchronize")
  /\ UNCHANGED <<vid, run_reps, stream, launchOk, lastErr, cout, fwVars, notFw>>

\* lines 349-351 and 372-374: k == N ends the repetition; ++irep
FwRepEnd ==
  /\ hpc = "kloop"
  /\ k >= N
  /\ hpc' = "rep"
  /\ irep' = irep + 1
  /\ UNCHANGED <<vid, run_reps, stream, launchOk, lastErr, hlog, cout, fwVars, notFw>>

\* the device starts the threads of a launch of the stream
FwBegin ==
  \E n \in Eligible(stream) :
    /\ stream[n].op = "fw"
    /\ stream[n].id \notin DOMAIN running
    /\ running' = [id \in DOMAIN running \cup {stream[n].id} |->
                     IF id \in DOMAIN running THEN running[id]
                     ELSE [th \in LaunchedThreads(N) |->
                             IF InBounds(th[1], th[2], N) THEN "body" ELSE "done"]]
    /\ pin0' = IF stream[n].id[2] = 0 THEN pin ELSE pin0
    /\ pinAtLaunch' = pin
    /\ UNCHANGED <<hostVars, N, k, pin, issued, completed, notFw>>

FwThreadNextK ==
  \E id \in DOMAIN running :
    \E th \in DOMAIN running[id] :
      /\ running[id][th] = "body"
      /\ pin' = FloydWarshallBody(pin, (id[2] + 1) % N, th[1], th[2])
      /\ running' = [running EXCEPT ![id][th] = "done"]
      /\ UNCHANGED <<hostVars, N, k, pin0, pinAtLaunch, issued, completed, notFw>>

\* lines 302-307: thread <<i, j>> of launch id executes the body
FwThread ==
  \E id \in DOMAIN running :
    \E th \in DOMAIN running[id] :
      /\ running[id][th] = "body"
      /\ pin' = FloydWarshallBody(pin, id[2], th[1], th[2])
      /\ running' = [running EXCEPT ![id][th] = "done"]
      /\ UNCHANGED <<hostVars, N, k, pin0, pinAtLaunch, issued, completed, notFw>>

\* the launch is complete when all its threads have returned
FwEnd ==
  \E n \in Eligible(stream) :
    /\ stream[n].op = "fw"
    /\ stream[n].id \in DOMAIN running
    /\ \A th \in DOMAIN running[stream[n].id] : running[stream[n].id][th] = "done"
    /\ stream' = Retire(stream, n)
    /\ running' = [id \in DOMAIN running \ {stream[n].id} |-> running[id]]
    /\ completed' = Append(completed, stream[n].id)
    /\ UNCHANGED <<hpc, vid, run_reps, irep, launchOk, lastErr, hlog, cout,
                   N, k, pin, pin0, pinAtLaunch, issued, notFw>>

\* the input matrices: every self-loop weighs a, every edge i -> i+1 (mod N)
\* weighs b, every other edge is heavier than any path of lighter edges
Orders == 0 .. 3

Heavy == 3 * MaxW + 1

InputMatrix(n, a, b) ==
  [c \in (0 .. (n - 1)) \X (0 .. (n - 1)) |->
     IF c[1] = c[2] THEN a
     ELSE IF c[2] = (c[1] + 1) % n THEN b
     ELSE Heavy]

FwVids == {"Base_CUDA", "Lambda_CUDA", "NumVariants"}

InitFw ==
  /\ hpc = "entry"
  /\ vid \in FwVids
  /\ run_reps \in 1 .. MaxReps
  /\ irep = 0
  /\ stream = <<>>
  /\ launchOk \in BOOLEAN
  /\ lastErr = "cudaSuccess"
  /\ hlog = <<>>
  /\ cout = 0
  /\ N \in Orders
  /\ k = 0
  /\ \E a, b \in 0 .. MaxW : pin = InputMatrix(N, a, b)
  /\ pin0 = pin
  /\ pinAtLaunch = pin
  /\ running = <<>>
  /\ issued = <<>>
  /\ completed = <<>>
  /\ entry = "runCudaVariantImpl"
  /\ PiIdle
  /\ DispIdle

NextFw ==
  \/ FwEntry
  \/ FwRepTest
  \/ FwLaunch
  \/ FwErrchk
  \/ FwRepEnd
  \/ FwBegin
  \/ FwThread
  \/ FwEnd

SpecFw == InitFw /\ [][NextFw]_vars

\* ------------------------------------------------------------------ C3
RECURSIVE PathLen(_, _)
PathLen(m, q) == IF Len(q) < 2 THEN 0
                 ELSE m[<<q[1], q[2]>>] + PathLen(m, Tail(q))

MinOf(S) == CHOOSE x \in S : \A y \in S : x <= y

\* length of a shortest path from i to j whose intermediate vertices are <= kk
ShortestVia(m, kk, i, j) ==
  MinOf({PathLen(m, <<i>> \o q \o <<j>>) : q \in DistinctSeqs(0 .. kk, kk + 1)})

LastCompleted == completed[Len(completed)]

\* C3: when the launch with index k of a chain has completed (and the next has
\* not started), every entry (i, j) of the matrix is the length of a shortest
\* path from i to j in the chain's input matrix with intermediate vertices
\* <= k; after the launch with k = N-1 it is the all-pairs shortest-path matrix.
C3_AfterLaunchK ==
  (completed # <<>> /\ running = <<>>) =>
     \A i, j \in 0 .. (N - 1) :
        pin[<<i, j>>] = ShortestVia(pin0, LastCompleted[2], i, j)

C3_Witness ==
  /\ N = 3
  /\ completed # <<>>
  /\ running = <<>>
  /\ LastCompleted = <<0, 2>>
  /\ pin[<<0, 2>>] < pin0[<<0, 2>>]
  /\ pin[<<0, 0>>] < pin0[<<0, 0>>]

\* ------------------------------------------------------------------ C4
\* C4: the launches the host issues are k = 0, 1, ..., N-1 of repetition 0,
\* then of repetition 1, ...: exactly N per finished repetition; the device
\* executes at most one launch at a time, namely the oldest one not yet
\* complete, so no thread of a launch runs before the launch before it is done.
C4_LaunchesInOrder ==
  /\ \A n \in DOMAIN issued : issued[n] = <<(n - 1) \div N, (n - 1) % N>>
  /\ (vid \in {"Base_CUDA", "Lambda_CUDA"} /\ hpc \in {"rep", "done"})
        => Len(issued) = irep * N
  /\ Cardinality(DOMAIN running) <= 1
  /\ \A n \in DOMAIN completed : completed[n] = issued[n]
  /\ \A id \in DOMAIN running : id = issued[Len(completed) + 1]

C4_Witness ==
  /\ N = 3
  /\ run_reps = 2
  /\ hpc = "done"
  /\ Len(issued) = 6
  /\ Len(completed) = 4
  /\ \E id \in DOMAIN running : \E th \in DOMAIN running[id] : running[id][th] = "done"

\* ------------------------------------------------------------------ C8
\* C8 (as claimed): every launch is followed at once by the launch-error
\* check, and a run in which a launch failed does not go on to stopTimer.
C8_LaunchChecked ==
  /\ \A n \in DOMAIN hlog :
        (hlog[n] = "launch" /\ n < Len(hlog)) => hlog[n + 1] = "cudaErrchk"
  /\ (\E n \in DOMAIN hlog : hlog[n] = "stopTimer") => (launchOk \/ issued = <<>>)

\* ------------------------------------------------------------------ C9
Syncs == {n \in DOMAIN hlog :
            hlog[n] \in {"cudaStreamSynchronize", "cudaDeviceSynchronize"}}

\* C9 (as claimed): the host has synchronized once for every finished
\* repetition.
C9_SyncPerRepetition ==
  (vid \in {"Base_CUDA", "Lambda_CUDA"} /\ hpc \in {"rep", "done"})
     => Cardinality(Syncs) = irep

\* C9 (amended): the host never synchronizes in the recurrence variants,
\* neither per k nor per repetition: every launch is enqueued without waiting.
C9_NoSyncInLoop ==
  /\ Syncs = {}
  /\ (hpc = "kloop" /\ k < N) => ENABLED FwLaunch

C9_Witness ==
  /\ vid \in {"Base_CUDA", "Lambda_CUDA"}
  /\ hpc = "done"
  /\ irep = 2
  /\ Syncs = {}
  /\ Len(stream) = 2 * N
  /\ N = 3

\* ================================= CONVECTION3DPA::runOpenMPTargetVariant
ConvImplementsAll(v) == TRUE

\* CONVECTION3DPA-OMPTarget.cpp, lines 24 and 26: the variant ids with a branch
ConvImplements(v) == v \in {"Base_OpenMPTarget", "RAJA_OpenMPTarget"}

\* lines 22-31: both branches are empty, the else reports on getCout()
runOpenMPTargetVariant ==
  /\ entry = "runOpenMPTargetVariant"
  /\ hpc = "entry"
  /\ hpc' = "done"
  /\ IF ConvImplements(vid)
       THEN UNCHANGED <<cout, hlog>>
       ELSE /\ cout' = cout + 1
            /\ Call("getCout")
  /\ UNCHANGED <<vid, run_reps, irep, stream, launchOk, lastErr,
                 piInputs, piDevVars, dispVars, fwVars, entry>>

ConvVids == {"Base_OpenMPTarget", "RAJA_OpenMPTarget", "Base_CUDA", "NumVariants"}

InitConv ==
  /\ hpc = "entry"
  /\ vid \in ConvVids
  /\ run_reps \in 1 .. MaxReps
  /\ irep = 0
  /\ stream = <<>>
  /\ launchOk \in BOOLEAN
  /\ lastErr = "cudaSuccess"
  /\ hlog = <<>>
  /\ cout = 0
  /\ entry = "runOpenMPTargetVariant"
  /\ PiIdle
  /\ DispIdle
  /\ FwIdle

\* ------------------------------------ the suite calls one entry point
\* Any of the five entry points, with any variant id; the problems of the
\* CUDA entry points are the small ones (one repetition).
InitEntry ==
  \/ InitPi /\ run_reps = 1 /\ iend <= 2 /\ block_size <= 2 /\ m_pi_init = 0
  \/ InitDispatch
  \/ InitFw /\ run_reps = 1 /\ N <= 1
  \/ InitConv

NextEntry ==
  \/ entry \in {"runCudaVariantBlock", "runCudaVariantOccGS"} /\ NextPi
  \/ entry = "runCudaVariant" /\ NextDispatch
  \/ entry = "runCudaVariantImpl" /\ NextFw
  \/ runOpenMPTargetVariant

SpecEntry == InitEntry /\ [][NextEntry]_vars

\* ----------------------------------------------------------------- C11
\* the variant ids each entry point has a branch for
Implements(e) ==
  IF e \in {"runCudaVariant", "runCudaVariantBlock", "runCudaVariantOccGS"}
    THEN {"Base_CUDA", "RAJA_CUDA"}
  ELSE IF e = "runCudaVariantImpl" THEN {"Base_CUDA", "Lambda_CUDA", "RAJA_CUDA"}
  ELSE {"Base_OpenMPTarget", "RAJA_OpenMPTarget"}

Returned == hpc \in {"done", "return"}

\* C11: a call with a variant id the entry point has no branch for never calls
\* startTimer/stopTimer, allocData or a launch, enqueues nothing on the stream,
\* executes no implementation, is never aborted, and when it has returned it
\* has written exactly one diagnostic (one per call) on the output stream.
C11_UnknownVariantReported ==
  vid \notin Implements(entry) =>
     /\ \A n \in DOMAIN hlog : hlog[n] = "getCout"
     /\ stream = <<>>
     /\ issued = <<>>
     /\ ran = <<>>
     /\ devStage = "idle"
     /\ hpc \in {"entry", "done", "return"}
     /\ Returned => (cout = ncall /\ Len(hlog) = ncall)

C11_Witness ==
  /\ entry = "runOpenMPTargetVariant"
  /\ vid = "Base_CUDA"
  /\ hpc = "done"
  /\ cout = 1

\* ----------------------------------------------------------------- C12
\* C12: the reset of a repetition leaves the initial value in the accumulator,
\* whatever the repetition before left there, and after every finished
\* repetition (the first, the last, any) the host result is 4 times the
\* accumulator of one reset and one launch: the result of a run of run_reps
\* repetitions is the result of a run of one.
C12_ResetEveryRepetition ==
  /\ devStage = "reset" => dpi = Seed(m_pi_init)
  /\ (vid = "Base_CUDA" /\ irep >= 1 /\ hpc \in {"loop", "reset", "stopTimer", "done"})
       => m_pi = VScale(4, KernelResult(GridSize, block_size, iend, m_pi_init))

C12_Witness ==
  /\ hpc = "done"
  /\ run_reps = 2
  /\ irep = 2
  /\ iend >= 2
  /\ m_pi_init = 1
  /\ m_pi = VScale(4, KernelResult(GridSize, block_size, iend, m_pi_init))
  /\ m_pi # Zero

\* ------------------------------ the recurrence on the smallest matrices
\* weights of either sign
SignedWeights == (0 - MaxW) .. MaxW

EdgeOrders == 0 .. 1

InitFwEdge ==
  /\ hpc = "entry"
  /\ vid \in FwVids
  /\ run_reps \in 1 .. MaxReps
  /\ irep = 0
  /\ stream = <<>>
  /\ launchOk \in BOOLEAN
  /\ lastErr = "cudaSuccess"
  /\ hlog = <<>>
  /\ cout = 0
  /\ N \in EdgeOrders
  /\ k = 0
  /\ \E a, b \in SignedWeights : pin = InputMatrix(N, a, b)
  /\ pin0 = pin
  /\ pinAtLaunch = pin
  /\ running = <<>>
  /\ issued = <<>>
  /\ completed = <<>>
  /\ entry = "runCudaVariantImpl"
  /\ PiIdle
  /\ DispIdle

SpecFwEdge == InitFwEdge /\ [][NextFw]_vars

\* ----------------------------------------------------------------- C13
\* the matrix elements the body of thread <<i, j>> of launch kk reads or writes
BodyAccesses(kk, i, j) == {<<i, j>>, <<i, kk>>, <<kk, j>>}

\* at most one launch per repetition: none for N = 0, the one with k = 0 for N = 1
EdgeLaunches ==
  /\ \A n \in DOMAIN issued : issued[n] = <<n - 1, 0>>
  /\ N = 0 => issued = <<>>
  /\ (vid \in {"Base_CUDA", "Lambda_CUDA"} /\ hpc \in {"rep", "done"})
        => Len(issued) = irep * N

\* no thread that executes the body touches an element outside [0, N) x [0, N)
EdgeInBounds ==
  \A id \in DOMAIN running :
     \A th \in DOMAIN running[id] :
        running[id][th] = "body" =>
           BodyAccesses(id[2], th[1], th[2]) \subseteq (0 .. (N - 1)) \X (0 .. (N - 1))

\* C13 (as claimed): for N <= 1 there is at most one launch per repetition, no
\* access outside the matrix, and the matrix is never changed: it equals the
\* matrix the chain started from.
C13_EdgeUnchanged ==
  N <= 1 => (EdgeLaunches /\ EdgeInBounds /\ pin = pin0)

\* C13 (amended): for N <= 1 there is at most one launch per repetition and no
\* access outside the matrix; the matrix is unchanged when its weights are
\* non-negative, while a negative pin[0,0] is doubled by the launch of N = 1
\* (min(w, w + w) = 2w).
C13_EdgeUnchangedNonNegative ==
  N <= 1 =>
     /\ EdgeLaunches
     /\ EdgeInBounds
     /\ (\A c \in DOMAIN pin0 : pin0[c] >= 0) => pin = pin0
     /\ \A c \in DOMAIN pin : pin[c] \in {pin0[c], 2 * pin0[c]}

C13_Witness ==
  /\ N = 1
  /\ run_reps = 2
  /\ hpc = "done"
  /\ Len(completed) = 2
  /\ pin0[<<0, 0>>] = MaxW
  /\ pin = pin0

\* --------------------- the launches of one chain, issued in any order
\* lines 302-307: the threads of launch kk, one after another in index order
RECURSIVE LaunchFrom(_, _, _, _)
LaunchFrom(m, kk, n, p) ==
  LET cols == RAJA_DIVIDE_CEILING_INT(n, TileJ) * TileJ
      rows == RAJA_DIVIDE_CEILING_INT(n, TileI) * TileI
      i == p \div cols
      j == p % cols
  IN  IF p >= rows * cols THEN m
      ELSE LaunchFrom(IF InBounds(i, j, n) THEN FloydWarshallBody(m, kk, i, j) ELSE m,
                      kk, n, p + 1)

LaunchResultPartial(m, kk, n) == LaunchFrom(m, kk, n, 1)

\* the matrix a complete launch kk leaves
LaunchResult(m, kk, n) == LaunchFrom(m, kk, n, 0)

\* the 3 x 3 matrices with non-negative weights: every matrix of weights 0
\* and 1, and every matrix of weights up to MaxW whose self-loops weigh the same
Matrices3 ==
  [(0 .. 2) \X (0 .. 2) -> 0 .. 1]
  \cup {m \in [(0 .. 2) \X (0 .. 2) -> 0 .. MaxW] :
          \A i \in 0 .. 2 : m[<<i, i>>] = m[<<0, 0>>]}

InitReorder ==
  /\ hpc = "kloop"
  /\ vid = "Base_CUDA"
  /\ run_reps = 1
  /\ irep = 0
  /\ stream = <<>>
  /\ launchOk = TRUE
  /\ lastErr = "cudaSuccess"
  /\ hlog = <<>>
  /\ cout = 0
  /\ N = 3
  /\ k = 0
  /\ pin \in Matrices3
  /\ pin0 = pin
  /\ pinAtLaunch = pin
  /\ running = <<>>
  /\ issued = <<>>
  /\ completed = <<>>
  /\ entry = "reordered"
  /\ PiIdle
  /\ DispIdle

\* one of the N launches of the chain that has not been issued yet is issued
\* and runs to completion before the next is issued
ReorderLaunch ==
  \E kk \in 0 .. (N - 1) :
     /\ <<irep, kk>> \notin {issued[n] : n \in DOMAIN issued}
     /\ issued' = Append(issued, <<irep, kk>>)
     /\ completed' = Append(completed, <<irep, kk>>)
     /\ pin' = LaunchResult(pin, kk, N)
     /\ k' = k + 1
     /\ UNCHANGED <<hostVars, N, pin0, pinAtLaunch, running, notFw>>

SpecReorder == InitReorder /\ [][ReorderLaunch]_vars

\* ----------------------------------------------------------------- C14
\* the launches of m's chain in the order ks
RECURSIVE RunOrder(_, _)
RunOrder(m, ks) == IF ks = <<>> THEN m
                   ELSE RunOrder(LaunchResult(m, ks[1], 3), Tail(ks))

\* the sequences of pairwise different intermediate vertices of a 3 x 3 matrix
Intermediates3 == DistinctSeqs(0 .. 2, 3)

\* the all-pairs shortest-path matrix of m: the length of a shortest path
\* from i to j, through any intermediate vertices
AllPairs(m) ==
  [c \in DOMAIN m |->
     MinOf({PathLen(m, <<c[1]>> \o q \o <<c[2]>>) : q \in Intermediates3})]

\* the orders with some launch k+1 issued before launch k
Reordered == {ks \in Intermediates3 :
                Len(ks) = 3 /\ \E n \in 1 .. 2 : ks[n] > ks[n + 1]}

\* C14 (as claimed): some matrix of the order of this chain (3 x 3) with
\* non-negative weights gives the all-pairs shortest-path matrix in the order
\* 0, 1, 2 and a different, incorrect matrix with a launch k+1 issued before
\* launch k.
C14_ReorderBreaks ==
  \E m \in Matrices3 :
     /\ DOMAIN m = DOMAIN pin0
     /\ RunOrder(m, <<0, 1, 2>>) = AllPairs(m)
     /\ \E ks \in Reordered : RunOrder(m, ks) # AllPairs(m)

OrderRun == [n \in DOMAIN completed |-> completed[n][2]]

\* C14 (amended): for every 3 x 3 matrix with non-negative weights the three
\* launches, each complete before the next starts, give the all-pairs
\* shortest-path matrix in every order, so that a launch k+1 issued before
\* launch k gives the same, correct final matrix.
C14_EveryOrderCorrect ==
  Len(completed) = N => pin = AllPairs(pin0)

C14_Witness ==
  /\ Len(completed) = N
  /\ OrderRun = <<1, 0, 2>>
  /\ pin = AllPairs(pin0)
  /\ pin[<<1, 1>>] < pin0[<<1, 1>>]
  /\ pin[<<2, 1>>] < pin0[<<2, 1>>]

\* ----------------------------------------------------------------- C15
\* the sum of the partial sums of the block_size threads of block bx
BlockSum(bx) ==
  VSum([tx \in 0 .. (block_size - 1) |->
          ThreadPartial(bx, tx, gridDim, block_size, iend, m_pi_init)],
       0 .. (block_size - 1))

\* the threads of block bx have left the halving loop
HalvingDone(bx) ==
  \A tx \in 0 .. (block_size - 1) : tpc[<<bx, tx>>] \in {"atomic", "done"}

\* C15 (as claimed): for any block size, when the halving loop of a block has
\* finished, ppi[0] of the block is the sum of the partial sums of all its
\* threads, each counted once.
C15_HalvingYieldsBlockSum ==
  devStage = "kernel" =>
     \A bx \in 0 .. (gridDim - 1) :
        HalvingDone(bx) => ppi[<<bx, 0>>] = BlockSum(bx)

PowerOfTwo(n) == n \in {1, 2, 4, 8}

\* the same statement for the block sizes that are powers of two, which holds
C15_PowersOfTwoOnly ==
  (devStage = "kernel" /\ PowerOfTwo(block_size)) =>
     \A bx \in 0 .. (gridDim - 1) :
        HalvingDone(bx) => ppi[<<bx, 0>>] = BlockSum(bx)

\* ----------------------------------------------------------------- C16
\* two accesses of different threads to one slot, one of them a write
Conflict(a, b) == a[1] # b[1] /\ a[2] = b[2] /\ "w" \in {a[3], b[3]}

AtBarrier(th) == tpc[th] \in {"sync41", "sync47"}

\* C16: between two barriers of a block no slot of ppi[] is written by one
\* thread and read or written by another: every write is to the writer's own
\* slot and every slot read in a halving step belongs to a thread that does
\* not write in that step; all accesses are inside the buffer; the threads of
\* a block have passed the same number of barriers, a thread never waits at a
\* barrier that another thread of its block does not reach, and every thread
\* that has returned has passed the same number of barriers.
C16_NoRaceInPhase ==
  devStage = "kernel" =>
     /\ \A bx \in DOMAIN acc :
          /\ \A a, b \in acc[bx] : ~Conflict(a, b)
          /\ \A a \in acc[bx] :
               /\ a[2] \in 0 .. (block_size - 1)
               /\ a[3] = "w" => a[2] = a[1]
     /\ \A th, uh \in DOMAIN tpc :
          th[1] = uh[1] =>
             /\ bars[th] = bars[uh]
             /\ AtBarrier(th) => tpc[uh] \in {tpc[th], "seed", "loop", "halve"}
             /\ (tpc[th] = "sync47" /\ tpc[uh] = "sync47") => ti[th] = ti[uh]
     /\ \A th, uh \in DOMAIN tpc :
          (tpc[th] = "done" /\ tpc[uh] = "done") => bars[th] = bars[uh]

C16_Witness ==
  /\ devStage = "kernel"
  /\ block_size = 4
  /\ \E bx \in DOMAIN acc :
        /\ <<0, 2, "r">> \in acc[bx]
        /\ <<1, 3, "r">> \in acc[bx]
        /\ <<1, 1, "w">> \in acc[bx]
        /\ tpc[<<bx, 2>>] = "halve"
        /\ bars[<<bx, 0>>] = 1

\* ----------------------------------------------------------------- C17
\* the order in which the stream executes the operations of the repetitions
StageOrder ==
  devStage' # devStage =>
     <<devStage, devStage'>> \in {<<"idle", "reset">>, <<"reset", "kernel">>,
                                  <<"kernel", "finished">>, <<"finished", "read">>,
                                  <<"read", "reset">>}

\* m_pi changes by the device-to-host copy of a finished launch, or by the
\* host's m_pi *= 4.0 once the synchronization has returned
ResultStep ==
  m_pi' # m_pi =>
     \/ devStage = "finished" /\ devStage' = "read" /\ m_pi' = dpi
     \/ /\ hpc = "scale"
        /\ hlog[Len(hlog)] = "cudaStreamSynchronize"
        /\ stream = <<>>
        /\ m_pi' = VScale(4, m_pi)

\* when the host is about to scale, the stream is empty, the copy of this
\* repetition has executed, and m_pi is the reset value plus one atomic add
\* of every block of this repetition's launch
ScaleAfterSync ==
  hpc = "scale" =>
     /\ stream = <<>>
     /\ devStage = "read"
     /\ m_pi = dpi
     /\ DOMAIN added = 0 .. (GridSize - 1)
     /\ \A b \in DOMAIN added : Len(added[b]) = 1
     /\ m_pi = VAdd(Seed(m_pi_init), AddedSum)

\* C17: in every repetition the stream executes the reset, the launch and the
\* copy back in this order, and the host scales m_pi only after the stream
\* synchronization has returned, the value being the accumulator after the
\* atomic add of every block of the repetition's launch.
C17_StreamOrderThenScale ==
  []ScaleAfterSync /\ [][StageOrder /\ ResultStep]_vars

C17_Witness ==
  /\ hpc = "scale"
  /\ irep = 1
  /\ gridDim >= 2
  /\ devStage = "read"
  /\ \A b \in DOMAIN added : Len(added[b]) = 1
  /\ m_pi = dpi
  /\ m_pi # Seed(m_pi_init)

\* ----------------------------------------------------------------- C18
\* the midpoint-rule sum plus pi_init once for the reset and once per thread
Replicated(grid, bs) ==
  [init |-> m_pi_init * (1 + grid * bs), cnt |-> MidpointSum(iend).cnt]

\* C18 (as claimed): the accumulator the host reads back after a repetition
\* with grid size G and block size B is the midpoint-rule sum plus
\* pi_init x (1 + G x B).
C18_InitReplicatedPerThread ==
  hpc = "scale" => m_pi = Replicated(GridSize, block_size)

\* the same statement for the block sizes that are powers of two, which holds
C18_PowersOfTwoOnly ==
  (hpc = "scale" /\ PowerOfTwo(block_size)) => m_pi = Replicated(GridSize, block_size)

\* ----------------------------- PI_REDUCE::setCudaTuningDefinitions: names
RECURSIVE to_string(_)
to_string_parity(n) == <<n % 2>>

\* std::to_string(block_size): the decimal digits of block_size
to_string(n) == IF n < 10 THEN <<n>> ELSE Append(to_string(n \div 10), n % 10)

\* lines 241 and 243: "block_"+std::to_string(block_size) and
\* "occgs_"+std::to_string(block_size)
TuningName(strat, bs) ==
  [prefix |-> IF strat = "block" THEN "block_" ELSE "occgs_", digits |-> to_string(bs)]

\* the names addVariantTuningName has registered, in order
RegisteredNames ==
  [n \in DOMAIN TuningNames |-> TuningName(TuningNames[n][1], TuningNames[n][2])]

\* ----------------------------------------------------------------- C19
\* C19: when a call with variant id Base_CUDA or RAJA_CUDA has returned, it
\* has executed an implementation exactly if tune_idx is the position of a
\* registered name (positions counted from 0), and the name at that position
\* is "block_B" exactly if the call executed runCudaVariantBlock<B> and
\* "occgs_B" exactly if it executed runCudaVariantOccGS<B>.
C19_NamesMatchDispatch ==
  (hpc = "return" /\ vid \in {"Base_CUDA", "RAJA_CUDA"}) =>
     /\ Len(ran) <= 1
     /\ ran # <<>> <=> tune_idx < Len(RegisteredNames)
     /\ tune_idx < Len(RegisteredNames) =>
          \A strat \in {"block", "occgs"} :
             \A B \in 1 .. (MaxBlock + 1) :
                RegisteredNames[tune_idx + 1] = TuningName(strat, B)
                   <=> ran = <<<<strat, B>>>>

C19_Witness ==
  /\ hpc = "return"
  /\ vid = "RAJA_CUDA"
  /\ tune_idx = 1
  /\ Len(gpu_block_sizes) = 2
  /\ ~ValidBlockSize(gpu_block_sizes[1])
  /\ ran = <<<<"occgs", gpu_block_sizes[2]>>>>
  /\ RegisteredNames[2] = TuningName("occgs", gpu_block_sizes[2])
  /\ Len(RegisteredNames) = 2

\* ------------------------------------- the recurrence, one repetition
InitFwChain == InitFw /\ run_reps = 1

SpecFwChain == InitFwChain /\ [][NextFw]_vars

\* ----------------------------------------------------------------- C20
\* what thread <<i, j>> of launch kk computes from the matrix m the launch
\* started from
CellResult(m, kk, i, j) == FloydWarshallBody(m, kk, i, j)[<<i, j>>]

\* C20: while a launch k runs on a matrix with non-negative weights, the
\* entries of row k and column k keep the value they had when the launch
\* started, whether their owner thread has written them or not; the entry of
\* every thread that has finished is the relaxation of the matrix the launch
\* started from and every other entry is untouched, so that the matrix the
\* launch leaves does not depend on the interleaving of its threads.
C20_LaunchInterleavingIndependent ==
  \A id \in DOMAIN running :
     (\A c \in DOMAIN pinAtLaunch : pinAtLaunch[c] >= 0) =>
        /\ \A c \in DOMAIN pin :
             (c[1] = id[2] \/ c[2] = id[2]) => pin[c] = pinAtLaunch[c]
        /\ \A c \in DOMAIN pin :
             pin[c] = IF running[id][c] = "done"
                        THEN CellResult(pinAtLaunch, id[2], c[1], c[2])
                        ELSE pinAtLaunch[c]
        /\ (\A th \in DOMAIN running[id] : running[id][th] = "done")
              => pin = LaunchResult(pinAtLaunch, id[2], N)

C20_Witness ==
  /\ N = 3
  /\ \E id \in DOMAIN running :
        /\ id[2] = 1
        /\ running[id][<<1, 2>>] = "body"
        /\ running[id][<<0, 1>>] = "body"
        /\ running[id][<<0, 2>>] = "done"
        /\ running[id][<<1, 1>>] = "done"
        /\ pin[<<0, 2>>] < pinAtLaunch[<<0, 2>>]

====
